---- MODULE Spec2Model ----
(***************************************************************************)
(* A model of repoze.what's authorization check                            *)
(* (repoze/what/authorize.py) and of its adapter benchmark harness         *)
(* (repoze/what/adapters/benchmark.py).                                    *)
(*                                                                         *)
(* Python values are records [tag, val]; exceptions are records            *)
(* [type, arg].  The predicate, the logger, the source adapter, the        *)
(* benchmarked actions and the timer are collaborators of the two          *)
(* modules: their outcomes are inputs, drawn from small sets.              *)
(***************************************************************************)
EXTENDS Integers, Sequences, FiniteSets, TLC

VARIABLES
    \* ---- check_authorization ----
    calls,        \* number of check_authorization calls made so far
    predicate,    \* the predicate argument of the last call
    environ,      \* the environ argument of the last call
    evaluated,    \* the predicate.evaluate invocations of the last call
    outcome,      \* how the last call ended: returned or raised
    log,          \* every line the logger has recorded
    \* ---- the benchmark harness ----
    platform,       \* sys.platform, read when benchmark.py is imported
    clock,          \* the last reading of the timer
    setbacks,       \* how often the system's wall clock was set back
    adapters,       \* benchmark name -> the state of the adapter it wraps
    adapters0,      \* the adapters as they were before the call (history)
    pc,             \* the position of the harness in its code
    call,           \* the top-level call: run or compare_benchmarks, with arguments
    ai,             \* compare_benchmarks: index of the current action
    bi,             \* compare_benchmarks: index of the current benchmark
    action_results, \* compare_benchmarks: line 136
    results,        \* compare_benchmarks: line 133
    iteration,      \* run: the loop variable of line 79
    elapsed_time,   \* run: line 77
    start_time,     \* run: line 82
    result,         \* how the top-level call ended
    failure,        \* the exception a collaborator raised, and when (history)
    count,          \* how often each collaborator was called (history)
    runs            \* the AdapterBenchmark.run calls made so far (history)

authVars == <<calls, predicate, environ, evaluated, outcome, log>>

benchVars ==
    <<platform, clock, setbacks, adapters, adapters0, pc, call, ai, bi, action_results, results,
      iteration, elapsed_time, start_time, result, failure, count, runs>>

vars ==
    <<calls, predicate, environ, evaluated, outcome, log,
      platform, clock, setbacks, adapters, adapters0, pc, call, ai, bi, action_results,
      results, iteration, elapsed_time, start_time, result, failure, count, runs>>

----------------------------------------------------------------------------
\* Bounds

MaxCalls == 2

----------------------------------------------------------------------------
\* Python values

None == [tag |-> "None", val |-> {}]

Dict(pairs) == [tag |-> "dict", val |-> pairs]

Logger == [tag |-> "Logger", val |-> {}]

\* A predicate object; val is the set of exceptions its evaluate raises
\* (empty: evaluate returns normally).
Predicate(raises) == [tag |-> "Predicate", val |-> raises]

NoException == [type |-> "", arg |-> ""]

Exception(type, arg) == [type |-> type, arg |-> arg]

\* Python's truth test, as applied by "x and ...": None and an empty dict are
\* false; Predicate and Logger instances define neither __nonzero__ nor
\* __len__, so they are true.
Truthy(v) == v.tag # "None" /\ ~(v.tag = "dict" /\ v.val = {})

\* dict.get(key): the value, or None when the key is absent.
Get(d, key) == IF key \in DOMAIN d THEN d[key] ELSE None

----------------------------------------------------------------------------
\* Inputs of check_authorization

Reasons == {"not a member", "anonymous"}

PredicateErrors == {Exception("PredicateError", r) : r \in Reasons}

OtherErrors == {Exception("ValueError", "boom"), Exception("KeyError", "groups")}

Predicates ==
    {None, Predicate({})} \cup {Predicate({e}) : e \in PredicateErrors \cup OtherErrors}

CredentialValues == {Dict({}), Dict({<<"repoze.what.userid", "alice">>})}

LoggerKey == "repoze.who.logger"

CredentialsKey == "repoze.what.credentials"

Environs ==
    {[k \in {} |-> None]}
    \cup {[k \in {LoggerKey} |-> Logger]}
    \cup {[k \in {CredentialsKey} |-> c] : c \in CredentialValues}
    \cup {[k \in {LoggerKey, CredentialsKey} |-> IF k = LoggerKey THEN Logger ELSE c] :
            c \in CredentialValues}

----------------------------------------------------------------------------
\* check_authorization

\* predicate.evaluate(environ, credentials): the exception it raises, or
\* NoException.
Evaluate(p, env, credentials) ==
    IF p.val = {} THEN NoException ELSE CHOOSE e \in p.val : TRUE

\* line 40
Credentials(env) == Get(env, CredentialsKey)

\* Mutation of Invoked: evaluate is called without the "predicate and" guard.
InvokedAlways(p) == TRUE

\* line 42: "predicate and predicate.evaluate(environ, credentials)"
Invoked(p) == Truthy(p)

\* Mutation of Caught: the handler reads "except Exception, error".
CaughtAny(e) == e.type # ""

\* line 43: "except PredicateError, error"
Caught(e) == e.type = "PredicateError"

\* line 44: u'Authorization denied: %s' % error
DeniedLine(e) == <<"Authorization denied: %s", e.arg>>

\* line 46
GrantedLine == <<"Authorization granted", "">>

\* Mutation of NotAuthorizedError: raised without the error it translates.
NotAuthorizedErrorBare(e) == Exception("NotAuthorizedError", "")

\* line 45: NotAuthorizedError(error)
NotAuthorizedError(e) == Exception("NotAuthorizedError", e.arg)

\* lines 41-46: the lines logged, given what the evaluation raised
Logged(logger, raised) ==
    IF ~Truthy(logger) THEN <<>>
    ELSE IF raised = NoException THEN <<GrantedLine>>
    ELSE IF Caught(raised) THEN <<DeniedLine(raised)>>
    ELSE <<>>

\* lines 41-46: how the call ends, given what the evaluation raised
Outcome(raised) ==
    IF raised = NoException THEN [kind |-> "returned", error |-> NoException]
    ELSE IF Caught(raised) THEN [kind |-> "raised", error |-> NotAuthorizedError(raised)]
    ELSE [kind |-> "raised", error |-> raised]

check_authorization(p, env) ==
    /\ calls < MaxCalls
    /\ LET logger == Get(env, LoggerKey)
           credentials == Credentials(env)
           raised == IF Invoked(p) THEN Evaluate(p, env, credentials) ELSE NoException
       IN /\ evaluated' = IF Invoked(p)
                            THEN <<[environ |-> env, credentials |-> credentials]>>
                            ELSE <<>>
          /\ log' = log \o Logged(logger, raised)
          /\ outcome' = Outcome(raised)
    /\ predicate' = p
    /\ environ' = env
    /\ calls' = calls + 1
    /\ UNCHANGED benchVars

----------------------------------------------------------------------------
\* The source adapter.  A dict is a set of <<key, value>> pairs with one pair
\* per key; an adapter is [store, loaded_sections, all_sections_loaded, query].

SectionOrder == <<"admins", "editors", "junk", "old">>

\* The keys of a dict, in its iteration order.
KeysOf(d) == SelectSeq(SectionOrder, LAMBDA s : \E p \in d : p[1] = s)

ItemsOf(d, key) == (CHOOSE p \in d : p[1] = key)[2]

Str(s) == [tag |-> "str", val |-> {s}]

NoQuery == [tag |-> "None", val |-> {}]

\* adapter.delete_section(section)
DeleteSection(store, section) == {p \in store : p[1] # section}

\* adapter.create_section(section)
CreateSection(store, section) == DeleteSection(store, section) \cup {<<section, <<>>>>}

\* adapter.set_section_items(section, items)
SetSectionItems(store, section, items) ==
    DeleteSection(store, section) \cup {<<section, items>>}

\* adapter.find_sections(query): the lookup loads the adapter's cache.
FindSections(adapter, query) ==
    [adapter EXCEPT !.loaded_sections = adapter.store,
                    !.all_sections_loaded = TRUE,
                    !.query = query]

SourceError == Exception("SourceError", "adapter failure")

ActionError == Exception("RuntimeError", "action failure")

----------------------------------------------------------------------------
\* Built-in benchmark actions, and a callable that writes to the adapter

GroupsRetrievalAction(user_id) == [class |-> "GroupsRetrievalAction", arg |-> user_id]

PermissionsRetrievalAction(group_id) ==
    [class |-> "PermissionsRetrievalAction", arg |-> group_id]

WritingAction == [class |-> "callable", arg |-> "junk"]

\* GroupsRetrievalAction.__call__
GroupsRetrievalCall(self, adapter) ==
    LET credentials == Dict({<<"repoze.what.userid", self.arg>>})
    IN FindSections(adapter, credentials)

\* PermissionsRetrievalAction.__call__
PermissionsRetrievalCall(self, adapter) == FindSections(adapter, Str(self.arg))

\* A caller's action that replaces the "admins" section by a "junk" section
\* and leaves a stale cache behind.
WritingCall(self, adapter) ==
    [adapter EXCEPT
        !.store = SetSectionItems(CreateSection(DeleteSection(@, "admins"), self.arg),
                                  self.arg, <<"mallory">>),
        !.loaded_sections = {<<"admins", <<"mallory">>>>},
        !.all_sections_loaded = TRUE]

\* action(self.adapter): the adapter afterwards, when the action returns
CallAction(action, adapter) ==
    IF action.class = "GroupsRetrievalAction" THEN GroupsRetrievalCall(action, adapter)
    ELSE IF action.class = "PermissionsRetrievalAction"
         THEN PermissionsRetrievalCall(action, adapter)
    ELSE WritingCall(action, adapter)

\* What the action raises when it fails: the adapter's error for the built-in
\* actions, its own for the caller's.
RaisedBy(action) == IF action.class = "callable" THEN ActionError ELSE SourceError

----------------------------------------------------------------------------
\* Bounds and inputs of the harness

\* iterations of a run called directly
MaxIter == 2

\* iterations passed to compare_benchmarks
MaxCompareIter == 1

MaxActions == 2

\* how often the system clock may be set back while the harness runs
MaxSetBacks == 1

\* the readings the timer can give
TimerRange == {0, 1}

BenchOrder == <<"x", "y">>

BenchNames == {BenchOrder[i] : i \in 1..Len(BenchOrder)}

\* the actions a caller passes to run
Actions ==
    {GroupsRetrievalAction("alice"), PermissionsRetrievalAction("admins"), WritingAction}

\* the actions a caller passes to compare_benchmarks
ComparedActions == {PermissionsRetrievalAction("admins"), WritingAction}

ActionLists == UNION {[1..n -> ComparedActions] : n \in 0..MaxActions}

Seed == Dict({<<"admins", <<"alice", "bob">>>>, <<"editors", <<>>>>})

\* the source dicts a caller passes
Seeds == {Dict({}), Seed}

\* what every adapter holds before the harness is called
InitStore == {<<"old", <<"carol">>>>}

Platforms == {"win32", "linux2"}

\* kwargs, in their iteration order
NamesIn(S) == SelectSeq(BenchOrder, LAMBDA b : b \in S)

----------------------------------------------------------------------------
\* The timer (lines 27-30)

\* timer(): the readings it can give after the reading last.  time.clock
\* (win32) never decreases.  time.time is the system's wall clock: it does not
\* decrease either, unless the system clock is set back between two calls.
TimerReadings(plat, last, back) ==
    {t \in TimerRange : t >= last \/ (plat # "win32" /\ back < MaxSetBacks)}

\* reading the timer: line 82, line 84
ReadTimer(t) ==
    /\ t \in TimerReadings(platform, clock, setbacks)
    /\ clock' = t
    /\ setbacks' = IF t < clock THEN setbacks + 1 ELSE setbacks
    /\ count' = [count EXCEPT !.timer = @ + 1]

----------------------------------------------------------------------------
\* AdapterBenchmark.reset_source

\* line 99: "if source:"
SourceDefined(source) == Truthy(source)

\* adapter.get_all_sections(): the sections of the store, with their items
GetAllSections(store) == store

\* lines 101-107: the adapter calls of a reset, in order
ResetOps(store, source) ==
    IF SourceDefined(source)
    THEN LET old == KeysOf(GetAllSections(store))
             new == KeysOf(source.val)
         IN <<[op |-> "get_all_sections", section |-> "", items |-> <<>>]>>
            \o [i \in 1..Len(old) |-> [op |-> "delete_section", section |-> old[i], items |-> <<>>]]
            \o [i \in 1..(2 * Len(new)) |->
                  IF i % 2 = 1
                  THEN [op |-> "create_section", section |-> new[(i + 1) \div 2], items |-> <<>>]
                  ELSE [op |-> "set_section_items", section |-> new[i \div 2],
                        items |-> ItemsOf(source.val, new[i \div 2])]]
    ELSE <<>>

ApplyOp(store, o) ==
    IF o.op = "delete_section" THEN DeleteSection(store, o.section)
    ELSE IF o.op = "create_section" THEN CreateSection(store, o.section)
    ELSE IF o.op = "set_section_items" THEN SetSectionItems(store, o.section, o.items)
    ELSE store

RECURSIVE ApplyOps(_, _, _)
\* the store after the first n calls of ops
ApplyOps(store, ops, n) ==
    IF n = 0 THEN store ELSE ApplyOp(ApplyOps(store, ops, n - 1), ops[n])

\* lines 109-110
ResetCache(adapter) ==
    [adapter EXCEPT !.loaded_sections = {}, !.all_sections_loaded = FALSE]

\* Mutation of ResetSourceOf: lines 109-110 indented into the "if source:"
\* block.
ResetSourceCacheInsideIf(adapter, source) ==
    LET ops == ResetOps(adapter.store, source)
    IN IF SourceDefined(source)
       THEN ResetCache([adapter EXCEPT !.store = ApplyOps(@, ops, Len(ops))])
       ELSE adapter

\* reset_source(source), when no adapter call fails
ResetSourceOf(adapter, source) ==
    LET ops == ResetOps(adapter.store, source)
    IN ResetCache([adapter EXCEPT !.store = ApplyOps(@, ops, Len(ops))])

----------------------------------------------------------------------------
\* Control

NoValue == [tag |-> "None", val |-> <<>>]

NoResult == [kind |-> "none", error |-> NoException, value |-> NoValue]

Returned(v) == [kind |-> "returned", error |-> NoException, value |-> v]

Raised(e) == [kind |-> "raised", error |-> e, value |-> NoValue]

NoFailure == [error |-> NoException, at |-> "", invocations |-> 0, resets |-> 0, runs |-> 0]

NoCall ==
    [op |-> "none", iterations |-> 0, source |-> None, actions |-> <<>>, benchmarks |-> <<>>]

\* Mutation of Propagate: the exception is swallowed and the loop goes on.
Swallow(e, at) ==
    [pc |-> IF at = "action" THEN "timer_end" ELSE "timer_start",
     result |-> [kind |-> "none", error |-> NoException, value |-> NoValue]]

\* run and compare_benchmarks hold no try statement: an exception raised in
\* line 80 or 83 leaves run, and in line 138 leaves compare_benchmarks.
Propagate(e, at) == [pc |-> "done", result |-> Raised(e)]

\* the benchmark and the action of the run in progress
Bench == call.benchmarks[bi]

Action == call.actions[ai]

\* Mutation of Preconditions: line 131 reads "len(benchmarks) > 0", as its
\* message says.
PreconditionsOneBenchmark(actions, benchmarks) ==
    IF ~(Len(actions) > 0) THEN Exception("AssertionError", "At least one action must be run")
    ELSE IF ~(Len(benchmarks) > 0)
         THEN Exception("AssertionError", "At least one benchmark must be specified")
    ELSE NoException

\* lines 130-131
Preconditions(actions, benchmarks) ==
    IF ~(Len(actions) > 0) THEN Exception("AssertionError", "At least one action must be run")
    ELSE IF ~(Len(benchmarks) > 1)
         THEN Exception("AssertionError", "At least one benchmark must be specified")
    ELSE NoException

\* line 77: entering run
EnterRun ==
    /\ elapsed_time' = 0
    /\ iteration' = 0
    /\ start_time' = 0

\* benchmark.run(action, iterations, source), called by the user
Run(b, action, iterations, source) ==
    /\ pc = "idle"
    /\ call' = [op |-> "run", iterations |-> iterations, source |-> source,
                actions |-> <<action>>, benchmarks |-> <<b>>]
    /\ ai' = 1
    /\ bi' = 1
    /\ EnterRun
    /\ runs' = Append(runs, [action |-> 1, benchmark |-> b,
                             iterations |-> iterations, source |-> source])
    /\ pc' = "loop"
    /\ UNCHANGED <<authVars, platform, clock, setbacks, adapters, adapters0, action_results, results,
                   result, failure, count>>

\* compare_benchmarks(iterations, source, *actions, **benchmarks): lines 130-133
CompareBenchmarks(iterations, source, actions, benchmarks) ==
    /\ pc = "idle"
    /\ call' = [op |-> "compare", iterations |-> iterations, source |-> source,
                actions |-> actions, benchmarks |-> benchmarks]
    /\ LET e == Preconditions(actions, benchmarks)
       IN IF e # NoException
          THEN /\ pc' = "done"
               /\ result' = Raised(e)
          ELSE /\ pc' = "pair"
               /\ result' = result
    /\ ai' = 1
    /\ bi' = 1
    /\ action_results' = {}
    /\ results' = <<>>
    /\ UNCHANGED <<authVars, platform, clock, setbacks, adapters, adapters0, iteration, elapsed_time,
                   start_time, failure, count, runs>>

\* lines 135-142: the next (action, benchmark) pair, or the end of an action's
\* loop, or the return
ComparePair ==
    /\ pc = "pair"
    /\ IF bi <= Len(call.benchmarks)
       THEN \* line 138: benchmark.run(action, iterations, source)
            /\ EnterRun
            /\ runs' = Append(runs, [action |-> ai, benchmark |-> Bench,
                                     iterations |-> call.iterations,
                                     source |-> call.source])
            /\ pc' = "loop"
            /\ UNCHANGED <<ai, bi, action_results, results, result>>
       ELSE \* line 140
            /\ results' = Append(results, action_results)
            /\ IF ai < Len(call.actions)
               THEN /\ ai' = ai + 1
                    /\ bi' = 1
                    /\ action_results' = {}
                    /\ pc' = "pair"
                    /\ result' = result
               ELSE \* line 142
                    /\ pc' = "done"
                    /\ result' = Returned(Append(results, action_results))
                    /\ UNCHANGED <<ai, bi, action_results>>
            /\ UNCHANGED <<iteration, elapsed_time, start_time, runs>>
    /\ UNCHANGED <<authVars, platform, clock, setbacks, adapters, adapters0, call, failure, count>>

\* line 79: "for iteration in range(iterations)", and line 87
Loop ==
    /\ pc = "loop"
    /\ IF iteration < call.iterations
       THEN /\ pc' = "reset"
            /\ UNCHANGED <<bi, action_results, result>>
       ELSE IF call.op = "run"
            THEN /\ pc' = "done"
                 /\ result' = Returned(elapsed_time)
                 /\ UNCHANGED <<bi, action_results>>
            ELSE \* line 139
                 /\ action_results' =
                        SetSectionItems(action_results, Bench, elapsed_time)
                 /\ bi' = bi + 1
                 /\ pc' = "pair"
                 /\ result' = result
    /\ UNCHANGED <<authVars, platform, clock, setbacks, adapters, adapters0, call, ai, results, iteration,
                   elapsed_time, start_time, failure, count, runs>>

\* line 80: self.reset_source(source); the adapter call after the first n
\* raises, or none does
ResetSource(n) ==
    /\ pc = "reset"
    /\ LET adapter == adapters[Bench]
           ops == ResetOps(adapter.store, call.source)
       IN /\ n \in 0..Len(ops)
          /\ IF n = Len(ops)
             THEN /\ adapters' = [adapters EXCEPT ![Bench] = ResetSourceOf(adapter, call.source)]
                  /\ count' = [count EXCEPT !.resets = @ + 1, !.sections = @ + n]
                  /\ pc' = "timer_start"
                  /\ UNCHANGED <<result, failure>>
             ELSE /\ adapters' = [adapters EXCEPT ![Bench].store = ApplyOps(@, ops, n)]
                  /\ count' = [count EXCEPT !.resets = @ + 1, !.sections = @ + n + 1]
                  /\ failure' = [error |-> SourceError, at |-> "reset",
                                 invocations |-> count.invocations,
                                 resets |-> count.resets + 1, runs |-> Len(runs)]
                  /\ pc' = Propagate(SourceError, "reset").pc
                  /\ result' = Propagate(SourceError, "reset").result
    /\ UNCHANGED <<authVars, platform, clock, setbacks, adapters0, call, ai, bi, action_results, results,
                   iteration, elapsed_time, start_time, runs>>

\* line 82: start_time = timer()
StartTimer(t) ==
    /\ pc = "timer_start"
    /\ ReadTimer(t)
    /\ start_time' = t
    /\ pc' = "action"
    /\ UNCHANGED <<authVars, platform, adapters, adapters0, call, ai, bi, action_results, results,
                   iteration, elapsed_time, result, failure, runs>>

\* line 83: action(self.adapter)
InvokeAction(fails) ==
    /\ pc = "action"
    /\ count' = [count EXCEPT !.invocations = @ + 1]
    /\ IF fails
       THEN /\ failure' = [error |-> RaisedBy(Action), at |-> "action",
                           invocations |-> count.invocations + 1,
                           resets |-> count.resets, runs |-> Len(runs)]
            /\ pc' = Propagate(RaisedBy(Action), "action").pc
            /\ result' = Propagate(RaisedBy(Action), "action").result
            /\ UNCHANGED adapters
       ELSE /\ adapters' = [adapters EXCEPT ![Bench] = CallAction(Action, @)]
            /\ pc' = "timer_end"
            /\ UNCHANGED <<result, failure>>
    /\ UNCHANGED <<authVars, platform, clock, setbacks, adapters0, call, ai, bi, action_results, results,
                   iteration, elapsed_time, start_time, runs>>

\* lines 84-85: end_time = timer(); elapsed_time += end_time - start_time
EndTimer(t) ==
    /\ pc = "timer_end"
    /\ ReadTimer(t)
    /\ elapsed_time' = elapsed_time + (t - start_time)
    /\ iteration' = iteration + 1
    /\ pc' = "loop"
    /\ UNCHANGED <<authVars, platform, adapters, adapters0, call, ai, bi, action_results, results,
                   start_time, result, failure, runs>>

----------------------------------------------------------------------------
\* Specifications

NewAdapter(store) ==
    [store |-> store, loaded_sections |-> {}, all_sections_loaded |-> FALSE,
     query |-> NoQuery]

InitAuth ==
    /\ calls = 0
    /\ predicate = None
    /\ environ = [k \in {} |-> None]
    /\ evaluated = <<>>
    /\ outcome = [kind |-> "none", error |-> NoException]
    /\ log = <<>>

InitBench ==
    /\ platform \in Platforms
    /\ clock = 0
    /\ setbacks = 0
    /\ adapters = [b \in BenchNames |-> NewAdapter(InitStore)]
    /\ adapters0 = adapters
    /\ pc = "idle"
    /\ call = NoCall
    /\ ai = 1
    /\ bi = 1
    /\ action_results = {}
    /\ results = <<>>
    /\ iteration = 0
    /\ elapsed_time = 0
    /\ start_time = 0
    /\ result = NoResult
    /\ failure = NoFailure
    /\ count = [invocations |-> 0, resets |-> 0, timer |-> 0, sections |-> 0]
    /\ runs = <<>>

Init == InitAuth /\ InitBench

NextAuth == \E p \in Predicates, env \in Environs : check_authorization(p, env)

NextRun ==
    \/ \E b \in BenchNames, a \in Actions, n \in 0..MaxIter, s \in Seeds \cup {None} :
         Run(b, a, n, s)
    \/ Loop
    \/ \E n \in 0..(2 * Len(SectionOrder) + 1) : ResetSource(n)
    \/ \E t \in TimerRange : StartTimer(t)
    \/ \E fails \in BOOLEAN : InvokeAction(fails)
    \/ \E t \in TimerRange : EndTimer(t)

NextCompare ==
    \/ \E n \in 0..MaxCompareIter, s \in Seeds, as \in ActionLists, bs \in SUBSET BenchNames :
         CompareBenchmarks(n, s, as, NamesIn(bs))
    \/ ComparePair
    \/ Loop
    \/ \E n \in 0..(2 * Len(SectionOrder) + 1) : ResetSource(n)
    \/ \E t \in TimerRange : StartTimer(t)
    \/ \E fails \in BOOLEAN : InvokeAction(fails)
    \/ \E t \in TimerRange : EndTimer(t)

SpecAuth == Init /\ [][NextAuth]_vars

SpecRun == Init /\ [][NextRun]_vars

SpecCompare == Init /\ [][NextCompare]_vars

----------------------------------------------------------------------------
\* Properties of check_authorization (under SpecAuth)

\* C1: a predicate whose evaluate fails with a PredicateError carrying reason r
\* makes check_authorization raise NotAuthorizedError wrapping exactly r; the
\* logger, when the environ holds one, records exactly one line, "Authorization
\* denied: r", and no "Authorization granted" line; without a logger nothing is
\* recorded.
C1_DeniedWrapsReason ==
    [][\A r \in Reasons :
          predicate' = Predicate({Exception("PredicateError", r)}) =>
             /\ outcome' = [kind |-> "raised",
                            error |-> Exception("NotAuthorizedError", r)]
             /\ log' = log \o (IF LoggerKey \in DOMAIN environ'
                               THEN <<<<"Authorization denied: %s", r>>>>
                               ELSE <<>>)]_vars

C1_Witness ==
    /\ calls > 0
    /\ predicate = Predicate({Exception("PredicateError", "not a member")})
    /\ LoggerKey \in DOMAIN environ
    /\ outcome.kind = "raised"
    /\ outcome.error = Exception("NotAuthorizedError", "not a member")
    /\ Len(log) = 1
    /\ log[1] = <<"Authorization denied: %s", "not a member">>

\* C2: check_authorization returns normally whenever the predicate is None or
\* its evaluate returns normally, and the logger, when present, then records
\* exactly one "Authorization granted" line; evaluate is invoked once for a
\* predicate that is supplied and never for None.
C2_GrantedOnSuccess ==
    [][/\ (predicate'.tag = "None" \/ predicate' = Predicate({})) =>
             /\ outcome'.kind = "returned"
             /\ log' = log \o (IF LoggerKey \in DOMAIN environ'
                               THEN <<<<"Authorization granted", "">>>>
                               ELSE <<>>)
       /\ Len(evaluated') = (IF predicate'.tag = "None" THEN 0 ELSE 1)
       /\ \A i \in 1..Len(evaluated') : evaluated'[i].environ = environ']_vars

C2_Witness ==
    /\ calls > 0
    /\ predicate = Predicate({})
    /\ LoggerKey \in DOMAIN environ
    /\ Len(evaluated) = 1
    /\ outcome.kind = "returned"
    /\ Len(log) = 1
    /\ log[1] = <<"Authorization granted", "">>

\* C9: when the environ has no 'repoze.what.credentials' entry, the predicate
\* is evaluated with an empty credential set as its credentials argument.
C9_AbsentCredentialsAreEmpty ==
    (calls > 0 /\ predicate.tag = "Predicate" /\ CredentialsKey \notin DOMAIN environ) =>
        /\ Len(evaluated) = 1
        /\ evaluated[1].credentials = Dict({})

\* C10: check_authorization raises NotAuthorizedError only when the evaluation
\* raised a PredicateError; any other exception of evaluate leaves
\* check_authorization unchanged, and then no line is logged.
C10_OnlyPredicateErrorTranslated ==
    [][/\ (outcome'.kind = "raised" /\ outcome'.error.type = "NotAuthorizedError") =>
             \E e \in predicate'.val : e.type = "PredicateError"
       /\ \A e \in OtherErrors :
             predicate' = Predicate({e}) =>
                /\ outcome' = [kind |-> "raised", error |-> e]
                /\ log' = log]_vars

C10_Witness ==
    /\ calls > 0
    /\ predicate = Predicate({Exception("ValueError", "boom")})
    /\ LoggerKey \in DOMAIN environ
    /\ outcome = [kind |-> "raised", error |-> Exception("ValueError", "boom")]
    /\ log = <<>>

----------------------------------------------------------------------------
\* Properties of AdapterBenchmark.run (under SpecRun)

\* C3: in run(action, N, S) with N > 0 and a source dict S of any size, the
\* adapter's store equals S and its cache is empty when the action is invoked,
\* and a run that returns has invoked the action N times.
C3_EveryInvocationSeesSeed ==
    (call.op = "run" /\ call.source.tag = "dict" /\ call.iterations > 0) =>
        /\ pc = "action" =>
              /\ adapters[Bench].store = call.source.val
              /\ adapters[Bench].loaded_sections = {}
              /\ ~adapters[Bench].all_sections_loaded
        /\ (pc = "done" /\ result.kind = "returned") =>
              count.invocations = call.iterations

\* C7: in a run without a source, no step of the runner calls a section
\* operation of the adapter or changes its store; the reset before each
\* invocation still empties loaded_sections and clears all_sections_loaded.
C7_NoSourceResetsOnlyCache ==
    [][(call'.op = "run" /\ call'.source.tag = "None") =>
          /\ count'.sections = 0
          /\ pc # "action" =>
                \A b \in BenchNames :
                   /\ adapters'[b].store = adapters[b].store
                   /\ adapters'[b].query = adapters[b].query
          /\ pc = "reset" =>
                /\ pc' = "timer_start"
                /\ adapters'[Bench].loaded_sections = {}
                /\ ~adapters'[Bench].all_sections_loaded
          /\ pc' = "action" =>
                /\ adapters'[Bench].loaded_sections = {}
                /\ ~adapters'[Bench].all_sections_loaded]_vars

C7_Witness ==
    /\ call.op = "run"
    /\ call.source.tag = "None"
    /\ pc = "action"
    /\ iteration = 1
    /\ adapters[Bench].store # adapters0[Bench].store
    /\ adapters[Bench].loaded_sections = {}
    /\ ~adapters[Bench].all_sections_loaded
    /\ count.sections = 0

\* C8: the elapsed time of a run is never negative, whatever the timer reads;
\* a run returns the accumulated time, and with 0 iterations it returns 0
\* without a reset, an invocation or a timer reading.
C8_ElapsedNeverNegative ==
    call.op = "run" =>
        /\ elapsed_time >= 0
        /\ (pc = "done" /\ result.kind = "returned") =>
              /\ result.value = elapsed_time
              /\ call.iterations = 0 =>
                    /\ result.value = 0
                    /\ count = [invocations |-> 0, resets |-> 0, timer |-> 0,
                                sections |-> 0]

----------------------------------------------------------------------------
\* Properties of compare_benchmarks (under SpecCompare)

\* C4: compare_benchmarks called without actions or with fewer than two
\* benchmarks has raised an AssertionError, and nothing else has happened: no
\* run was called, no adapter changed, no action was invoked, no timer read.
C4_PreconditionsBeforeAnyRun ==
    (call.op = "compare" /\ (Len(call.actions) = 0 \/ Len(call.benchmarks) < 2)) =>
        /\ pc = "done"
        /\ result.kind = "raised"
        /\ result.error.type = "AssertionError"
        /\ runs = <<>>
        /\ adapters = adapters0
        /\ count = [invocations |-> 0, resets |-> 0, timer |-> 0, sections |-> 0]

C4_Witness ==
    /\ call.op = "compare"
    /\ Len(call.actions) = 2
    /\ Len(call.benchmarks) = 1
    /\ pc = "done"
    /\ result.kind = "raised"
    /\ result.error.type = "AssertionError"

\* C5: with k >= 1 actions and m >= 2 benchmarks, run is called once per
\* (action, benchmark) pair in action-major order with the same iterations and
\* source, a comparison that returns gives k maps keyed by the benchmark
\* names, and every invocation of an action finds the adapter's store equal to
\* the source, so none sees what an earlier run left behind.
C5_EveryPairReseeded ==
    (call.op = "compare" /\ Len(call.actions) >= 1 /\ Len(call.benchmarks) >= 2) =>
        LET k == Len(call.actions)
            m == Len(call.benchmarks)
        IN /\ \A i \in 1..Len(runs) :
                 runs[i] = [action |-> ((i - 1) \div m) + 1,
                            benchmark |-> call.benchmarks[((i - 1) % m) + 1],
                            iterations |-> call.iterations,
                            source |-> call.source]
           /\ (pc = "done" /\ result.kind = "returned") =>
                 /\ Len(runs) = k * m
                 /\ Len(result.value) = k
                 /\ \A i \in 1..k :
                       {p[1] : p \in result.value[i]} =
                           {call.benchmarks[j] : j \in 1..m}
           /\ pc = "action" => adapters[Bench].store = call.source.val

\* C6: once an action or an adapter operation has raised, the harness has
\* stopped with that very exception: no elapsed time and no results list is
\* returned, and no reset, invocation or run follows the failure.
C6_FailurePropagates ==
    failure.error # NoException =>
        /\ pc = "done"
        /\ result.kind = "raised"
        /\ result.error = failure.error
        /\ count.invocations = failure.invocations
        /\ count.resets = failure.resets
        /\ Len(runs) = failure.runs

C6_Witness ==
    /\ call.op = "compare"
    /\ Len(call.actions) = 2
    /\ failure.at = "action"
    /\ failure.error = ActionError
    /\ failure.runs = 1
    /\ pc = "done"
    /\ result.kind = "raised"
    /\ result.error = ActionError
    /\ results = <<>>

====
